---- MODULE Spec2Model ----
(***************************************************************************)
(* Model of the dreamscape browser client (src/src/source.js): the graph   *)
(* renderer renderGraph3D, the d3-force-3d simulation it starts and its    *)
(* tick handler, the two fetch chains (loadInitialGraph, submitDream), the *)
(* font loader callback and the mousemove listener with resetHighlights.   *)
(*                                                                         *)
(* JavaScript runs these handlers to completion on one thread, so each     *)
(* handler (with the promise reactions chained to it) is one action.       *)
(*                                                                         *)
(* Objects are named by where they were created.  Each call of            *)
(* renderGraph3D that passes the font check gets a name k (a render); the  *)
(* i-th node object of its graph is <<k, i>>, the mesh made for it is      *)
(* <<"Mesh", k, i>>, its j-th link object is <<k, j>>, the line made for   *)
(* it is <<"Line", k, j>> and the simulation it makes is simulation k.     *)
(* Null is <<>>.                                                           *)
(* The model is the heap the program can still reach: the objects of the   *)
(* renders named by currentGraph, by graphGroup's children, by the global  *)
(* simulation, by a running simulation's timer or by highlightedNode.      *)
(* The others are garbage, and a new render takes the least free name.     *)
(* The coordinates (x, y, z) of the nodes are abstracted to layouts: in    *)
(* layout p of a graph its i-th node is at <<p, i>>, a point no other node *)
(* and no other layout has, and Origin is where a new THREE.Mesh is        *)
(* placed.  The program reads n.x, n.y, n.z in the tick handler only,      *)
(* after the library's step has rewritten them, so the model chooses the   *)
(* layout there: every step of a simulation puts the nodes of its graph    *)
(* into one of the layouts 1..MaxLayout.                                   *)
(*                                                                         *)
(* The pure functions of renderGraph3D (getColorForWeight and the weight   *)
(* expression) are also run on arguments of their own: PureSpec draws the  *)
(* arguments into probe and applies the function to them.  In Spec, probe  *)
(* never changes.                                                          *)
(***************************************************************************)
EXTENDS Integers, Sequences, FiniteSets, TLC

\* ---- bounds of the model ----
MaxRequests == 2
MaxLayout == 2
MaxAbsWeight == 4

\* ---- program constants ----
White == 16777215
Highlight == 16776960
Gray == 8947848
DefaultOpacity == 9

Null == <<>>
Layouts == 1..MaxLayout
Origin == <<0, 0>>

\* ---- response bodies ----
WLink(s, t, w) ==
  [source |-> s, target |-> t, hasWeight |-> TRUE, weight |-> w,
   hasValue |-> FALSE, value |-> 0]

\* a link that carries its weight in the value field
VLink(s, t, v) ==
  [source |-> s, target |-> t, hasWeight |-> FALSE, weight |-> 0,
   hasValue |-> TRUE, value |-> v]

GraphObject(ns, ls) ==
  [defined |-> TRUE, hasNodes |-> TRUE, nodes |-> ns, hasLinks |-> TRUE, links |-> ls]

\* data.graph of a submit response without a "graph" member (or a null body)
UndefinedGraph ==
  [defined |-> FALSE, hasNodes |-> FALSE, nodes |-> <<>>, hasLinks |-> FALSE, links |-> <<>>]

\* the body {} : an object with neither nodes nor links
EmptyObject ==
  [defined |-> TRUE, hasNodes |-> FALSE, nodes |-> <<>>, hasLinks |-> FALSE, links |-> <<>>]

\* the body {"nodes": [{"id": "a"}, {"id": "b"}]} : no links member
NodesOnly ==
  [defined |-> TRUE, hasNodes |-> TRUE, nodes |-> <<"a", "b">>, hasLinks |-> FALSE, links |-> <<>>]

PairGraph == GraphObject(<<"a", "b">>, <<WLink("a", "b", 1)>>)

ChainGraph ==
  GraphObject(<<"a", "b", "c">>, <<WLink("a", "b", 1), WLink("b", "c", 5)>>)

\* the example snapshot of the specification: the third link names no node
DanglingGraph ==
  GraphObject(<<"a", "b", "c">>,
              <<WLink("a", "b", 1), WLink("b", "c", 5), WLink("a", "x", 3)>>)

\* two links of one weight, one of them from a node to itself
LoopGraph == GraphObject(<<"a", "b">>, <<VLink("a", "b", 3), WLink("b", "b", 3)>>)

GraphArgs ==
  {UndefinedGraph, EmptyObject, NodesOnly, PairGraph, ChainGraph, DanglingGraph,
   LoopGraph}

\* what a fetch chain can deliver: a rejected request, a body that is not
\* JSON, or a parsed body whose graph is handed to renderGraph3D
Responses ==
  {[ok |-> o, graph |-> UndefinedGraph] : o \in {"reject", "badjson"}}
    \cup {[ok |-> "json", graph |-> g] : g \in GraphArgs}

\* ---- calls of the pure functions, one at a time ----
\* the weights a link can carry in a probe
WeightValues == (0 - MaxAbsWeight)..MaxAbsWeight

\* a link object as JSON.parse leaves it: each of weight, value present or absent
LinkObjects ==
  {[source |-> "a", target |-> "b", hasWeight |-> hw, weight |-> w,
    hasValue |-> hv, value |-> v] :
     hw \in BOOLEAN, w \in WeightValues, hv \in BOOLEAN, v \in WeightValues}

NoProbe ==
  [fn |-> "none", min |-> 0, max |-> 0, w1 |-> 0, w2 |-> 0, l |-> WLink("a", "b", 1),
   done |-> FALSE, c1 |-> 0, c2 |-> 0, eff |-> 0]

\* two weights w1 <= w2 of a graph whose least and greatest weights are min, max
ColorProbes ==
  {[NoProbe EXCEPT !.fn = "color", !.min = mn, !.max = mx, !.w1 = u, !.w2 = v] :
     mn \in WeightValues, mx \in WeightValues, u \in WeightValues, v \in WeightValues}

WeightProbes ==
  {[NoProbe EXCEPT !.fn = "weight", !.l = l] : l \in LinkObjects}

VARIABLES
  loadedFont,       \* the font has arrived (loadedFont is not null)
  issued,           \* number of fetches started; request 1 is loadInitialGraph's
  inflight,         \* requests whose promise chain has not run yet
  renders,          \* the graph objects handed to renderGraph3D, by render
  currentGraph,     \* 0: the initial { nodes: [], links: [] }; k: the graph of render k
  graphGroup,       \* graphGroup.children
  mesh,             \* every THREE.Mesh created: colour, position, userData
  line,             \* every THREE.Line created: material, vertices, userData
  node,             \* the field the code adds to node objects: mesh
  link,             \* fields the code adds to link objects: sourceObj, targetObj, line
  simulation,       \* the global simulation: 0 (null) or a simulation
  sims,             \* every simulation created: timer running, tick listener present
  highlightedNode,  \* Null or a mesh
  tooltip,          \* tooltip.style.visibility and tooltip.innerHTML
  console,          \* number of console.warn and of console.error calls so far
  probe             \* arguments and results of one call of a pure function

vars ==
  <<loadedFont, issued, inflight, renders, currentGraph, graphGroup, mesh,
    line, node, link, simulation, sims, highlightedNode, tooltip, console, probe>>

Mesh(k, i) == <<"Mesh", k, i>>
Line(k, j) == <<"Line", k, j>>
IsNode(o) == o[1] = "Mesh"
IsLine(o) == o[1] = "Line"

Kind(q) == IF q = 1 THEN "load" ELSE "submit"

\* ---- renderGraph3D: pure parts ----

\* graph.nodes.find(n => n.id === id): index of the first match, 0 for undefined
Find(g, id) ==
  LET hits == {i \in 1..Len(g.nodes) : g.nodes[i] = id}
  IN  IF hits = {} THEN 0 ELSE CHOOSE i \in hits : \A k \in hits : i <= k

\* (l.weight ?? l.value) || 1
EffectiveWeight(l) ==
  LET v == IF l.hasWeight THEN l.weight ELSE IF l.hasValue THEN l.value ELSE 0
  IN  IF v # 0 THEN v ELSE 1

Weights(g) == {EffectiveWeight(g.links[j]) : j \in 1..Len(g.links)}
MinWeight(g) == CHOOSE w \in Weights(g) : \A v \in Weights(g) : w <= v
MaxWeight(g) == CHOOSE w \in Weights(g) : \A v \in Weights(g) : w >= v

\* a slip in the blue channel: it rises with the weight as the red one does
getColorBlueRising(weight, min, max) ==
  LET d == IF max - min # 0 THEN max - min ELSE 1
      r == (255 * (weight - min)) \div d
  IN  r * 65536 + r

\* a slip in the guard of the divisor, (weight - min) / (max - min) || 1:
\* with min = max the quotient is NaN and t becomes 1
getColorFlatIsHigh(weight, min, max) ==
  IF max - min # 0
  THEN ((255 * (weight - min)) \div (max - min)) * 65536
         + ((255 * (max - weight)) \div (max - min))
  ELSE 255 * 65536

\* t = (weight - min) / (max - min || 1); Math.floor(255 * t), Math.floor(255 * (1 - t));
\* (r << 16) | (0 << 8) | b.  The quotients are taken exactly, where the program
\* rounds t and 1 - t to doubles first.
getColorForWeight(weight, min, max) ==
  LET d == IF max - min # 0 THEN max - min ELSE 1
      r == (255 * (weight - min)) \div d
      b == (255 * (d - (weight - min))) \div d
  IN  r * 65536 + b

LinkColor(g, j) ==
  getColorForWeight(EffectiveWeight(g.links[j]), MinWeight(g), MaxWeight(g))

\* (mutant) the guard tests the source endpoint only
ResolvedBySourceOnly(g, j) == Find(g, g.links[j].source) # 0

\* if (!l.sourceObj || !l.targetObj) return;
Resolved(g, j) ==
  Find(g, g.links[j].source) # 0 /\ Find(g, g.links[j].target) # 0

ResolvedLinks(g) == {j \in 1..Len(g.links) : Resolved(g, j)}

\* a slip in the link loop: the line is pushed onto its source's list only
RECURSIVE PushedToSourceOnly(_, _, _, _)
PushedToSourceOnly(k, g, i, j) ==
  IF j = 0 THEN <<>>
  ELSE LET before == PushedToSourceOnly(k, g, i, j - 1)
       IN  IF ~Resolved(g, j) THEN before
           ELSE before \o (IF Find(g, g.links[j].source) = i THEN <<Line(k, j)>> ELSE <<>>)

\* the lines pushed onto mesh i's userData.links by the first j links, in order
RECURSIVE Pushed(_, _, _, _)
Pushed(k, g, i, j) ==
  IF j = 0 THEN <<>>
  ELSE LET before == Pushed(k, g, i, j - 1)
           s == Find(g, g.links[j].source)
           t == Find(g, g.links[j].target)
       IN  IF ~Resolved(g, j) THEN before
           ELSE before \o (IF s = i THEN <<Line(k, j)>> ELSE <<>>)
                       \o (IF t = i THEN <<Line(k, j)>> ELSE <<>>)

\* How far renderGraph3D(g) gets once past the font check:
\*   0  graph.nodes.forEach raises (graph or graph.nodes is undefined)
\*   1  graph.links.forEach raises (graph.links is undefined)
\*   2  forceLink's initialisation raises "node not found" for a link whose
\*      endpoint id matches no node, after forceSimulation(graph.nodes) has
\*      already started the new simulation's timer
\*   3  it returns normally
Reach(g) ==
  IF ~g.defined \/ ~g.hasNodes THEN 0
  ELSE IF ~g.hasLinks THEN 1
  ELSE IF ResolvedLinks(g) # 1..Len(g.links) THEN 2
  ELSE 3

\* (mutant) the group is not cleared before the rebuild
NotCleared(children) == children

\* graphGroup.clear()
Cleared(children) == {}

\* ---- reachable objects ----
\* the renders whose objects the program still holds a reference to
Live(cur, children, sim, ss, hl) ==
  (({cur, sim} \ {0}) \cup {o[2] : o \in children} \cup {s \in DOMAIN ss : ss[s].running})
    \cup (IF hl = Null THEN {} ELSE {hl[2]})

\* the name of the next render: the least one no reachable object carries
Fresh ==
  LET used == Live(currentGraph, graphGroup, simulation, sims, highlightedNode)
  IN  CHOOSE k \in 1..(Cardinality(used) + 1) :
        k \notin used /\ \A m \in 1..(k - 1) : m \in used

KeepObjects(f, live) == [o \in {x \in DOMAIN f : x[2] \in live} |-> f[o]]
KeepRecords(f, live) == [o \in {x \in DOMAIN f : x[1] \in live} |-> f[o]]
KeepRenders(f, live) == [k \in DOMAIN f \cap live |-> f[k]]

\* the state after the script has run: loadInitialGraph has started its fetch
PageLoaded ==
  /\ loadedFont = FALSE
  /\ issued = 1
  /\ inflight = {1}
  /\ renders = <<>>
  /\ currentGraph = 0
  /\ graphGroup = {}
  /\ mesh = <<>>
  /\ line = <<>>
  /\ node = <<>>
  /\ link = <<>>
  /\ simulation = 0
  /\ sims = <<>>
  /\ highlightedNode = Null
  /\ tooltip = [visible |-> FALSE, text |-> ""]
  /\ console = [warn |-> 0, error |-> 0]

Init ==
  /\ PageLoaded
  /\ probe = NoProbe


\* ---- the font loader callback: loadedFont = font, and nothing else ----
FontLoaded ==
  /\ ~loadedFont
  /\ loadedFont' = TRUE
  /\ UNCHANGED <<issued, inflight, renders, currentGraph, graphGroup, mesh, line,
                 node, link, simulation, sims, highlightedNode, tooltip, console, probe>>

\* ---- submitDream: starts a fetch; its reactions run in HandleResponse ----
SubmitDream ==
  /\ issued < MaxRequests
  /\ issued' = issued + 1
  /\ inflight' = inflight \cup {issued + 1}
  /\ UNCHANGED <<loadedFont, renders, currentGraph, graphGroup, mesh, line, node,
                 link, simulation, sims, highlightedNode, tooltip, console, probe>>

\* ---- renderGraph3D(g) past the font check, as render k ----

\* (mutant) the font check is missing
NeverSkipsRender == FALSE

\* if (!loadedFont) { console.warn(...); return; }
SkipsRender == ~loadedFont

\* node meshes: white, at the origin, userData = { id, isNode, links: [] };
\* the link loop then pushes the lines of the resolved links
NewMeshes(k, g) ==
  IF Reach(g) = 0 THEN <<>>
  ELSE [o \in {Mesh(k, i) : i \in 1..Len(g.nodes)} |->
          [color |-> White, position |-> Origin, id |-> g.nodes[o[3]],
           links |-> IF Reach(g) >= 2 THEN Pushed(k, g, o[3], Len(g.links)) ELSE <<>>]]

\* n.mesh = textMesh
NewNodes(k, g) ==
  IF Reach(g) = 0 THEN <<>>
  ELSE [n \in {<<k, i>> : i \in 1..Len(g.nodes)} |-> [mesh |-> Mesh(k, n[2])]]

\* one THREE.Line per resolved link, between the two mesh positions
NewLine(g, j, p1, p2) ==
  [color |-> LinkColor(g, j), opacity |-> DefaultOpacity,
   originalColor |-> LinkColor(g, j), weight |-> EffectiveWeight(g.links[j]),
   p1 |-> p1, p2 |-> p2,
   source |-> Find(g, g.links[j].source), target |-> Find(g, g.links[j].target)]

NewLines(k, g) ==
  IF Reach(g) < 2 THEN <<>>
  ELSE [o \in {Line(k, j) : j \in ResolvedLinks(g)} |-> NewLine(g, o[3], Origin, Origin)]

\* l.sourceObj, l.targetObj (0: undefined) and l.line
NewLinks(k, g) ==
  IF Reach(g) < 2 THEN <<>>
  ELSE [l \in {<<k, j>> : j \in 1..Len(g.links)} |->
          [sourceObj |-> Find(g, g.links[l[2]].source),
           targetObj |-> Find(g, g.links[l[2]].target),
           line |-> IF Resolved(g, l[2]) THEN Line(k, l[2]) ELSE Null]]

\* if (simulation) simulation.stop(); then forceSimulation(graph.nodes) starts
\* simulation k; the tick listener and the assignment to the global are
\* reached only when forceLink's initialisation does not raise
StopCurrent(ss, cur) ==
  [s \in DOMAIN ss |-> IF s = cur THEN [ss[s] EXCEPT !.running = FALSE] ELSE ss[s]]

SimsAfterRender(k, g) ==
  IF Reach(g) < 2 THEN sims
  ELSE StopCurrent(sims, simulation) @@ (k :> [running |-> TRUE, handler |-> Reach(g) = 3])

RenderGraph3D(g) ==
  LET k == Fresh
      sim == IF Reach(g) = 3 THEN k ELSE simulation
      children == Cleared(graphGroup) \cup DOMAIN NewMeshes(k, g) \cup DOMAIN NewLines(k, g)
      live == Live(k, children, sim, SimsAfterRender(k, g), highlightedNode)
  IN
  /\ renders' = KeepRenders(renders @@ (k :> g), live)
  /\ currentGraph' = k
  /\ graphGroup' = children
  /\ mesh' = KeepObjects(mesh @@ NewMeshes(k, g), live)
  /\ line' = KeepObjects(line @@ NewLines(k, g), live)
  /\ node' = KeepRecords(node @@ NewNodes(k, g), live)
  /\ link' = KeepRecords(link @@ NewLinks(k, g), live)
  /\ sims' = KeepRenders(SimsAfterRender(k, g), live)
  /\ simulation' = sim

\* ---- the promise chain of a fetch: .then(res.json()).then(render).catch(log) ----
HandleResponse(q, resp) ==
  /\ q \in inflight
  /\ inflight' = inflight \ {q}
  /\ UNCHANGED <<loadedFont, issued, highlightedNode, tooltip, probe>>
  /\ IF resp.ok # "json"
     THEN /\ console' = [console EXCEPT !.error = @ + 1]
          /\ UNCHANGED <<renders, currentGraph, graphGroup, mesh, line, node, link,
                         simulation, sims>>
     ELSE IF SkipsRender
     THEN /\ console' = [console EXCEPT !.warn = @ + 1]
          /\ UNCHANGED <<renders, currentGraph, graphGroup, mesh, line, node, link,
                         simulation, sims>>
     ELSE /\ RenderGraph3D(resp.graph)
          /\ console' = IF Reach(resp.graph) < 3 THEN [console EXCEPT !.error = @ + 1]
                         ELSE console


\* ---- a step of simulation s: the library moves the nodes, then emits "tick" ----

\* graph.nodes.forEach(n => { if (n.mesh) n.mesh.position.set(n.x, n.y, n.z) }),
\* the step having put node i of the graph at <<p, i>>
MeshesAfterTick(s, p) ==
  [o \in DOMAIN mesh |->
     IF <<s, o[3]>> \in DOMAIN node /\ node[<<s, o[3]>>].mesh = o
     THEN [mesh[o] EXCEPT !.position = <<p, o[3]>>]
     ELSE mesh[o]]

\* the links of render s the handler updates: both endpoints resolved
Ticked(s) ==
  {l \in DOMAIN link : l[1] = s /\ link[l].sourceObj # 0 /\ link[l].targetObj # 0}

\* l.line && l.line.geometry && ... : the line exists with its two vertices
HasLine(l) == link[l].line # Null

\* a slip in the update: the second vertex is left where it was
LineWithStaleEnd(g, l, ms) ==
  [line[link[l].line] EXCEPT
     !.p1 = ms[Mesh(l[1], link[l].sourceObj)].position,
     !.color = LinkColor(g, l[2]),
     !.weight = EffectiveWeight(g.links[l[2]])]

\* an existing line gets its two vertices, its weight colour and its weight
UpdatedLine(g, l, ms) ==
  [line[link[l].line] EXCEPT
     !.p1 = ms[Mesh(l[1], link[l].sourceObj)].position,
     !.p2 = ms[Mesh(l[1], link[l].targetObj)].position,
     !.color = LinkColor(g, l[2]),
     !.weight = EffectiveWeight(g.links[l[2]])]

\* a missing line is created as in renderGraph3D
CreatedLines(s, g, ms) ==
  [o \in {Line(s, l[2]) : l \in {m \in Ticked(s) : ~HasLine(m)}} |->
     NewLine(g, o[3], ms[Mesh(s, link[<<s, o[3]>>].sourceObj)].position,
                      ms[Mesh(s, link[<<s, o[3]>>].targetObj)].position)]

LinesAfterTick(s, g, ms) ==
  [o \in DOMAIN line |->
     IF o[2] = s /\ <<s, o[3]>> \in Ticked(s) /\ link[<<s, o[3]>>].line = o
     THEN UpdatedLine(g, <<s, o[3]>>, ms)
     ELSE line[o]]
    @@ CreatedLines(s, g, ms)

\* the lines the handler pushes onto mesh o when it creates missing lines
RECURSIVE PushedByTick(_, _, _)
PushedByTick(s, o, j) ==
  IF j = 0 THEN <<>>
  ELSE LET before == PushedByTick(s, o, j - 1)
           l == <<s, j>>
       IN  IF l \notin Ticked(s) \/ HasLine(l) THEN before
           ELSE before \o (IF link[l].sourceObj = o[3] THEN <<Line(s, j)>> ELSE <<>>)
                       \o (IF link[l].targetObj = o[3] THEN <<Line(s, j)>> ELSE <<>>)

Tick(s) ==
  /\ s \in DOMAIN sims
  /\ sims[s].running
  /\ LET g == renders[s] IN
     \E p \in Layouts :
       LET ms == MeshesAfterTick(s, p)
       IN  /\ IF sims[s].handler
              THEN /\ mesh' = [o \in DOMAIN ms |->
                                 IF o[2] = s
                                 THEN [ms[o] EXCEPT !.links = @ \o PushedByTick(s, o, Len(g.links))]
                                 ELSE ms[o]]
                   /\ line' = LinesAfterTick(s, g, ms)
                   /\ graphGroup' = graphGroup \cup DOMAIN CreatedLines(s, g, ms)
                   /\ link' = [l \in DOMAIN link |->
                                 IF l \in Ticked(s) /\ ~HasLine(l)
                                 THEN [link[l] EXCEPT !.line = Line(s, l[2])]
                                 ELSE link[l]]
              ELSE UNCHANGED <<mesh, line, graphGroup, link>>
  /\ UNCHANGED <<loadedFont, issued, inflight, renders, currentGraph, node, simulation,
                 sims, highlightedNode, tooltip, console, probe>>

\* alpha has decayed below alphaMin: the library stops the simulation's timer
CoolDown(s) ==
  /\ s \in DOMAIN sims
  /\ sims[s].running
  /\ LET ss == [sims EXCEPT ![s].running = FALSE]
         live == Live(currentGraph, graphGroup, simulation, ss, highlightedNode)
     IN  /\ sims' = KeepRenders(ss, live)
         /\ renders' = KeepRenders(renders, live)
         /\ mesh' = KeepObjects(mesh, live)
         /\ line' = KeepObjects(line, live)
         /\ node' = KeepRecords(node, live)
         /\ link' = KeepRecords(link, live)
  /\ UNCHANGED <<loadedFont, issued, inflight, currentGraph, graphGroup,
                 simulation, highlightedNode, tooltip, console, probe>>

\* (mutant) the node meshes keep their colour
MeshesNotReset(ms, children) == ms

\* (mutant) the lines keep their colour
LinesNotReset(ls, children) == ls

\* a slip in the reset: userData is rebuilt, and the incident lines are lost
ResetMeshesAndLists(ms, children) ==
  [o \in DOMAIN ms |->
     IF o \in children THEN [ms[o] EXCEPT !.color = White, !.links = <<>>] ELSE ms[o]]

\* ---- resetHighlights ----
ResetMeshes(ms, children) ==
  [o \in DOMAIN ms |-> IF o \in children THEN [ms[o] EXCEPT !.color = White] ELSE ms[o]]

ResetLines(ls, children) ==
  [o \in DOMAIN ls |->
     IF o \in children
     THEN [ls[o] EXCEPT
             !.color = IF ls[o].originalColor # 0 THEN ls[o].originalColor ELSE Gray,
             !.opacity = DefaultOpacity]
     ELSE ls[o]]

\* ---- the mousemove listener; hit is intersects[0].object, Null when the ray misses ----
InList(seq) == {seq[i] : i \in 1..Len(seq)}

HighlightMesh(ms, hit) == [ms EXCEPT ![hit].color = Highlight]

HighlightLines(ls, hit) ==
  [o \in DOMAIN ls |->
     IF o \in InList(mesh[hit].links) THEN [ls[o] EXCEPT !.color = Highlight] ELSE ls[o]]

MouseMove(hit) ==
  /\ hit = Null \/ (hit \in graphGroup /\ IsNode(hit))
  /\ LET live == Live(currentGraph, graphGroup, simulation, sims, hit) IN
     /\ IF hit # Null
        THEN /\ tooltip' = [visible |-> TRUE, text |-> mesh[hit].id]
             /\ IF highlightedNode # hit
                THEN /\ mesh' = KeepObjects(HighlightMesh(ResetMeshes(mesh, graphGroup), hit), live)
                     /\ line' = KeepObjects(HighlightLines(ResetLines(line, graphGroup), hit), live)
                     /\ highlightedNode' = hit
                ELSE UNCHANGED <<mesh, line, highlightedNode>>
        ELSE /\ tooltip' = [tooltip EXCEPT !.visible = FALSE]
             /\ mesh' = KeepObjects(ResetMeshes(mesh, graphGroup), live)
             /\ line' = KeepObjects(ResetLines(line, graphGroup), live)
             /\ highlightedNode' = Null
     /\ renders' = KeepRenders(renders, live)
     /\ node' = KeepRecords(node, live)
     /\ link' = KeepRecords(link, live)
     /\ sims' = KeepRenders(sims, live)
  /\ UNCHANGED <<loadedFont, issued, inflight, currentGraph, graphGroup,
                 simulation, console, probe>>

Requests == 1..MaxRequests
MeshNames == {Mesh(k, i) : k \in Requests, i \in 1..3}

Next ==
  \/ FontLoaded
  \/ SubmitDream
  \/ \E q \in Requests, resp \in Responses : HandleResponse(q, resp)
  \/ \E s \in Requests : Tick(s)
  \/ \E s \in Requests : CoolDown(s)
  \/ \E hit \in MeshNames \cup {Null} : MouseMove(hit)

Spec == Init /\ [][Next]_vars

\* ---- the pure functions of renderGraph3D, applied to arguments of their own ----
PureInit ==
  /\ PageLoaded
  /\ \/ /\ probe \in ColorProbes
        /\ probe.min <= probe.w1
        /\ probe.w1 <= probe.w2
        /\ probe.w2 <= probe.max
     \/ /\ probe \in WeightProbes
        /\ probe.l.hasWeight \/ probe.l.weight = 0
        /\ probe.l.hasValue \/ probe.l.value = 0

ApplyColor ==
  /\ probe.fn = "color"
  /\ ~probe.done
  /\ probe' = [probe EXCEPT !.c1 = getColorForWeight(probe.w1, probe.min, probe.max),
                            !.c2 = getColorForWeight(probe.w2, probe.min, probe.max),
                            !.done = TRUE]
  /\ UNCHANGED <<loadedFont, issued, inflight, renders, currentGraph, graphGroup, mesh,
                 line, node, link, simulation, sims, highlightedNode, tooltip, console>>

ApplyWeight ==
  /\ probe.fn = "weight"
  /\ ~probe.done
  /\ probe' = [probe EXCEPT !.eff = EffectiveWeight(probe.l), !.done = TRUE]
  /\ UNCHANGED <<loadedFont, issued, inflight, renders, currentGraph, graphGroup, mesh,
                 line, node, link, simulation, sims, highlightedNode, tooltip, console>>

PureNext ==
  \/ ApplyColor
  \/ ApplyWeight

PureSpec == PureInit /\ [][PureNext]_vars


\* ======================= the claims =======================

\* what a snapshot is expected to show, stated from its ids alone
NodeIds(g) == {g.nodes[i] : i \in 1..Len(g.nodes)}
Connects(g, j) == g.links[j].source \in NodeIds(g) /\ g.links[j].target \in NodeIds(g)
Primitives(k, g) ==
  {Mesh(k, i) : i \in 1..Len(g.nodes)}
    \cup {Line(k, j) : j \in {m \in 1..Len(g.links) : Connects(g, m)}}
Running == {s \in DOMAIN sims : sims[s].running}
Color(o) == IF IsNode(o) THEN mesh[o].color ELSE line[o].color
Moved == \E o \in graphGroup : IsNode(o) /\ mesh[o].position # Origin

\* C1: when a submitDream chain ends in its catch handler (the error is
\* logged), the graph group, currentGraph and the active simulation, still
\* running, are what they were before the response was handled.
C1_FailedSubmitKeepsScene ==
  [][\A q \in Requests, resp \in Responses :
       (Kind(q) = "submit" /\ HandleResponse(q, resp)
          /\ console'.error = console.error + 1)
       => /\ graphGroup' = graphGroup
          /\ currentGraph' = currentGraph
          /\ simulation' = simulation
          /\ Running' = Running]_vars

\* C2: once a snapshot has been rendered, and after any later ticks and
\* pointer moves, the graph group holds exactly one mesh per node of it and
\* one line per link of it whose two ids match a node, and nothing of an
\* earlier snapshot.
C2_GroupIsCurrentSnapshot ==
  currentGraph # 0 => graphGroup = Primitives(currentGraph, renders[currentGraph])

C2_Witness ==
  /\ currentGraph = 2
  /\ renders[2] = ChainGraph
  /\ Cardinality(graphGroup) = 5
  /\ Moved
  /\ highlightedNode \in graphGroup

\* C3: while the pointer stays on a node mesh m of the scene (m is the
\* highlighted node), the objects of the scene that carry the highlight
\* colour are exactly m and the lines of m's incident-line list, also after
\* simulation ticks.
C3_HighlightIsNodeAndItsLines ==
  highlightedNode \in graphGroup =>
    {o \in graphGroup : Color(o) = Highlight}
      = {highlightedNode} \cup InList(mesh[highlightedNode].links)

\* C4: a link one of whose ids matches no node of its snapshot has no line
\* in the graph group, no line at all, and is in no incident-line list,
\* after the render and after every later tick.
C4_DanglingLinkHasNoLine ==
  \A k \in DOMAIN renders : \A j \in 1..Len(renders[k].links) :
    ~Connects(renders[k], j) =>
      /\ Line(k, j) \notin graphGroup
      /\ Line(k, j) \notin DOMAIN line
      /\ \A o \in DOMAIN mesh : Line(k, j) \notin InList(mesh[o].links)

C4_Witness ==
  /\ currentGraph # 0
  /\ renders[currentGraph] = DanglingGraph
  /\ Line(currentGraph, 1) \in graphGroup
  /\ Line(currentGraph, 2) \in InList(mesh[Mesh(currentGraph, 2)].links)
  /\ currentGraph \in Running

\* C5: a graph handed to renderGraph3D while the font is missing changes
\* nothing: currentGraph, the graph group, the simulations, the highlight
\* and every object stay as they were, and the graph is kept nowhere.
C5_RenderWithoutFontIsNoOp ==
  [][\A q \in Requests, resp \in Responses :
       (HandleResponse(q, resp) /\ resp.ok = "json" /\ ~loadedFont)
       => UNCHANGED <<currentGraph, graphGroup, simulation, sims, highlightedNode,
                      renders, mesh, line, node, link>>]_vars

C5_Witness ==
  /\ ~loadedFont
  /\ console.warn = 2
  /\ inflight = {}

\* C6: at most one node mesh of the graph group carries the highlight
\* colour; when one does it is highlightedNode, and when highlightedNode is
\* null none does.
C6_OneHighlightedNode ==
  LET lit == {o \in graphGroup : IsNode(o) /\ mesh[o].color = Highlight}
  IN  /\ Cardinality(lit) <= 1
      /\ lit # {} => lit = {highlightedNode}
      /\ highlightedNode = Null => lit = {}

C6_Witness ==
  /\ highlightedNode \in graphGroup
  /\ mesh[highlightedNode].color = Highlight
  /\ Cardinality({o \in graphGroup : IsNode(o)}) = 3
  /\ Moved
  /\ currentGraph = 2

\* C7: right after a pointer move that hits no node the tooltip is hidden,
\* highlightedNode is null, every node mesh of the group is white and every
\* line of the group has its originalColor, the colour of its weight, at
\* the default opacity.
C7_MissRestoresColours ==
  [][MouseMove(Null) =>
       /\ ~tooltip'.visible
       /\ highlightedNode' = Null
       /\ \A o \in graphGroup' :
            /\ IsNode(o) => mesh'[o].color = White
            /\ IsLine(o) =>
                 /\ line'[o].color = line'[o].originalColor
                 /\ line'[o].color = LinkColor(renders'[o[2]], o[3])
                 /\ line'[o].opacity = DefaultOpacity]_vars

C7_Witness ==
  /\ ~tooltip.visible
  /\ tooltip.text = "b"
  /\ highlightedNode = Null
  /\ currentGraph # 0
  /\ renders[currentGraph] = ChainGraph
  /\ \A o \in graphGroup : IsLine(o) => line[o].color = line[o].originalColor

\* C8: at most one force simulation is running at any moment.
C8_OneRunningSimulation == Cardinality(Running) <= 1

\* C9: nothing is in the graph group while the font is missing, and the
\* group changes only when a response is handled with the font loaded: the
\* font callback, ticks and pointer moves never render a response that was
\* handled too early.
C9_EarlyResponseIsDropped ==
  /\ [](~loadedFont => graphGroup = {} /\ currentGraph = 0)
  /\ [][graphGroup' # graphGroup => loadedFont /\ inflight' # inflight]_vars

C9_Witness ==
  /\ loadedFont
  /\ issued = 1
  /\ inflight = {}
  /\ console.warn = 1
  /\ graphGroup = {}

\* a response whose graph has its nodes and its links, and the scene showing one
WellFormed(resp) == resp.ok = "json" /\ resp.graph.hasNodes /\ resp.graph.hasLinks
ShowsWellFormed ==
  currentGraph # 0 /\ renders[currentGraph].hasNodes /\ renders[currentGraph].hasLinks

Shows(g) ==
  /\ currentGraph # 0
  /\ renders[currentGraph] = g
  /\ graphGroup = Primitives(currentGraph, g)

\* C10: with the font loaded the snapshot shown is that of the well-formed
\* response handled last, whatever the order the requests were issued in: a
\* well-formed response replaces what is shown, and once one is shown any
\* other response leaves it.
C10_LastWellFormedResponseShown ==
  [][\A q \in Requests, resp \in Responses :
       (HandleResponse(q, resp) /\ loadedFont)
       => IF WellFormed(resp) THEN Shows(resp.graph)'
          ELSE ShowsWellFormed => graphGroup' = graphGroup /\ currentGraph' = currentGraph]_vars

\* ---- the channels of a packed colour ----
Red(c) == c \div 65536
Green(c) == (c \div 256) % 256
Blue(c) == c % 256

\* C11: when min < max, the colour of a weight in [min, max] has green 0 and
\* red and blue in 0..255, so it is at most 0xFFFFFF; of two weights w1 <= w2
\* the heavier has at least as much red and at most as much blue; min gets
\* red 0 and blue 255, and max gets red 255 and blue 0.
C11_ColourIsMonotoneAndBounded ==
  (probe.fn = "color" /\ probe.done /\ probe.min < probe.max) =>
     /\ \A c \in {probe.c1, probe.c2} :
          /\ c \in 0..White
          /\ Red(c) \in 0..255
          /\ Green(c) = 0
          /\ Blue(c) \in 0..255
     /\ Red(probe.c1) <= Red(probe.c2)
     /\ Blue(probe.c1) >= Blue(probe.c2)
     /\ probe.w1 = probe.min => Red(probe.c1) = 0 /\ Blue(probe.c1) = 255
     /\ probe.w2 = probe.max => Red(probe.c2) = 255 /\ Blue(probe.c2) = 0

C11_Witness ==
  /\ probe.fn = "color" /\ probe.done
  /\ probe.min < probe.w1 /\ probe.w1 < probe.w2 /\ probe.w2 < probe.max
  /\ Red(probe.c1) < Red(probe.c2)
  /\ Blue(probe.c1) > Blue(probe.c2)

\* the links of g all have one effective weight
Flat(g) ==
  /\ g.hasLinks
  /\ g.links # <<>>
  /\ \A i, j \in 1..Len(g.links) :
       EffectiveWeight(g.links[i]) = EffectiveWeight(g.links[j])

LowWeightColour(c) == Red(c) = 0 /\ Green(c) = 0 /\ Blue(c) = 255

\* C12: when all links of a snapshot have one effective weight, each of its
\* lines in the group has the low-weight colour (red 0, blue 255) as its
\* original colour, and shows it in every state, after creation and after
\* every tick, except while the line is highlighted as a line of the node
\* under the pointer.
C12_FlatWeightsGiveLowColour ==
  \A o \in graphGroup :
    (IsLine(o) /\ Flat(renders[o[2]])) =>
       /\ LowWeightColour(line[o].originalColor)
       /\ \/ LowWeightColour(line[o].color)
          \/ /\ line[o].color = Highlight
             /\ highlightedNode # Null
             /\ highlightedNode \in DOMAIN mesh
             /\ o \in InList(mesh[highlightedNode].links)

\* two lines of one weight, drawn low after a tick has moved them
C12_Witness ==
  /\ Shows(LoopGraph)
  /\ \A o \in graphGroup :
       IsLine(o) => line[o].p1 # Origin /\ LowWeightColour(line[o].color)

\* C13: the effective weight of a link is its weight field when the link
\* has one, otherwise its value field when it has one, otherwise 1,
\* whatever number the field holds, 0 included.
C13_EffectiveWeightIsFieldOrDefault ==
  (probe.fn = "weight" /\ probe.done) =>
     probe.eff = IF probe.l.hasWeight THEN probe.l.weight
                 ELSE IF probe.l.hasValue THEN probe.l.value
                 ELSE 1

\* g has nodes and links, and a link one of whose ids matches no node
HasDanglingLink(g) ==
  /\ g.hasNodes
  /\ g.hasLinks
  /\ \E j \in 1..Len(g.links) : ~Connects(g, j)

\* C14: rendering a snapshot with an unresolvable link does not raise
\* (nothing is logged as an error), and afterwards the active simulation is
\* the one made for that snapshot: it runs, and its ticks move the meshes
\* of the snapshot (its tick listener is attached).
C14_DanglingLinkRenderCompletes ==
  [][\A q \in Requests, resp \in Responses :
       (HandleResponse(q, resp) /\ loadedFont /\ resp.ok = "json"
          /\ HasDanglingLink(resp.graph))
       => /\ console'.error = console.error
          /\ simulation' = currentGraph'
          /\ sims'[simulation'].running
          /\ sims'[simulation'].handler]_vars

\* C15: in every state between events, each line in the graph group has as
\* its two vertices the current positions of the meshes of its source node
\* and of its target node.
C15_LineEndsAtItsMeshes ==
  \A o \in graphGroup :
    IsLine(o) =>
      /\ line[o].p1 = mesh[Mesh(o[2], line[o].source)].position
      /\ line[o].p2 = mesh[Mesh(o[2], line[o].target)].position

\* a tick has moved the three meshes and the two lines of the chain
C15_Witness ==
  /\ Shows(ChainGraph)
  /\ \A o \in graphGroup :
       IsLine(o) => line[o].p1 # Origin /\ line[o].p2 # Origin /\ line[o].p1 # line[o].p2

\* C16: a pointer move leaves the set of objects in the graph group,
\* currentGraph, the active simulation and its state, the position of every
\* node mesh and every incident-line list as they were; only the tooltip,
\* highlightedNode, colours and opacities may differ afterwards.
C16_PointerMoveKeepsTheScene ==
  [][(\E hit \in MeshNames \cup {Null} : MouseMove(hit)) =>
       /\ graphGroup' = graphGroup
       /\ currentGraph' = currentGraph
       /\ simulation' = simulation
       /\ simulation # 0 => sims'[simulation] = sims[simulation]
       /\ \A o \in graphGroup :
            IsNode(o) => /\ mesh'[o].position = mesh[o].position
                         /\ mesh'[o].links = mesh[o].links
                         /\ mesh'[o].id = mesh[o].id
       /\ \A o \in DOMAIN mesh' :
            /\ mesh'[o].position = mesh[o].position
            /\ mesh'[o].links = mesh[o].links]_vars

\* the pointer is on the middle node of the chain after a tick: the node
\* and its two lines are highlighted where the tick put them
C16_Witness ==
  /\ Shows(ChainGraph)
  /\ highlightedNode = Mesh(currentGraph, 2)
  /\ tooltip = [visible |-> TRUE, text |-> "b"]
  /\ mesh[highlightedNode].position # Origin
  /\ mesh[highlightedNode].links # <<>>
  /\ \A o \in InList(mesh[highlightedNode].links) : line[o].color = Highlight

\* how often x occurs in seq
Count(seq, x) == Cardinality({i \in 1..Len(seq) : seq[i] = x})

\* the meshes of the two nodes a line records as its source and its target
SourceMesh(o) == Mesh(o[2], line[o].source)
TargetMesh(o) == Mesh(o[2], line[o].target)

C18_HighlightedNodeIsInTheGroup ==
  highlightedNode # Null => highlightedNode \in graphGroup /\ IsNode(highlightedNode)

====
